---------------------------- MODULE Spec2Model ----------------------------
(***************************************************************************)
(* Model of lib/nets/network.py (class Network): the region-proposal head  *)
(* of the CTPN detector.                                                   *)
(*                                                                         *)
(*   Spec          create_architecture / _build_network / _region_proposal *)
(*                 / train_step as a state machine over the three result   *)
(*                 mappings (_predictions, _anchor_targets, _losses).      *)
(*   SpecLoss      _build_losses and _smooth_l1_loss on bounded tensors,   *)
(*                 with exact rational arithmetic.                         *)
(*   SpecProposal  _proposal_layer and _proposal_top_layer.                *)
(*   SpecTarget    _anchor_target_layer.                                   *)
(*                                                                         *)
(* The three py_func callbacks (proposal_layer, proposal_top_layer,        *)
(* anchor_target_layer) live in layer_utils, outside network.py; they are  *)
(* modelled from the specification's sections 4.3 and 4.4.                 *)
(***************************************************************************)
EXTENDS Integers, Sequences, FiniteSets, TLC

VARIABLES
    \* ---- Network object state (Spec) ----
    cfg_test_mode,      \* cfg.TEST.MODE, read-only configuration
    mode,               \* self._mode
    tag,                \* self._tag
    num_anchors,        \* self._num_anchors
    pc,                 \* position inside create_architecture
    predictions,        \* keys of self._predictions
    anchor_targets,     \* keys of self._anchor_targets
    losses,             \* keys of self._losses
    layers_to_output,   \* keys of the mapping create_architecture returns
    calls,              \* layers built, in call order
    error,              \* exception that left create_architecture, or "none"
    steps,              \* number of train_step calls made after construction
    last_run,           \* the last sess.run: what it fetched, the layers it ran
    layers,             \* keys of self._layers
    \* ---- one forward pass of _build_losses (SpecLoss) ----
    lpc,                        \* "input", "done" (losses built), "again" (second pass)
    rpn_cls_score,              \* _predictions['rpn_cls_score'] as (H, W, 2A)
    rpn_labels,                 \* _anchor_targets['rpn_labels'] as [-1]
    rpn_bbox_pred,              \* _predictions['rpn_bbox_pred'] as [-1, 4]
    rpn_bbox_targets,           \* _anchor_targets[...] as [-1, 4]
    rpn_bbox_inside_weights,
    rpn_bbox_outside_weights,
    sigma_rpn,                  \* sigma handed to _smooth_l1_loss
    regularization_loss,        \* tf.add_n(tf.losses.get_regularization_losses())
    rpn_select,                 \* tf.where(tf.not_equal(rpn_label, -1)), shape (K, 1)
    in_loss_box,                \* per-coordinate smooth-L1 values, shape (K, 1, 4)
    rpn_cross_entropy,          \* _losses['rpn_cross_entropy']
    rpn_loss_box,               \* _losses['rpn_loss_box']
    total_loss,                 \* _losses['total_loss']
    \* ---- one run of a proposal layer (SpecProposal) ----
    ppc,                \* "input", then "nms" or "top": the layer that ran
    im_info,            \* self._im_info as <<height, width>>
    anchors,            \* self._anchors: boxes <<x1, y1, x2, y2>>
    rpn_cls_prob,       \* per anchor <<background, foreground>>, thousandths
    rpn_bbox_deltas,    \* rpn_bbox_pred per anchor: <<dx, dy, exp(dw), exp(dh)>>
    rois,               \* rows <<0, x1, y1, x2, y2>>
    rpn_scores,         \* rows <<score>>
    rois_shape,         \* static shape given to rois by set_shape
    \* ---- one run of _anchor_target_layer (SpecTarget); it reads im_info
    \* and anchors and writes rpn_labels, rpn_bbox_targets and the weights ----
    tpc,                \* "input", then "done"
    gt_boxes            \* self._gt_boxes: rows <<x1, y1, x2, y2, class>>

headVars == <<cfg_test_mode, mode, tag, num_anchors, pc, predictions,
              anchor_targets, losses, layers_to_output, calls, error, steps,
              last_run, layers>>

lossIn == <<rpn_cls_score, rpn_labels, rpn_bbox_pred, rpn_bbox_targets,
            rpn_bbox_inside_weights, rpn_bbox_outside_weights, sigma_rpn,
            regularization_loss>>
lossOut == <<rpn_select, in_loss_box, rpn_cross_entropy, rpn_loss_box,
             total_loss>>
lossVars == <<lpc, lossIn, lossOut>>

propIn == <<im_info, anchors, rpn_cls_prob, rpn_bbox_deltas>>
propVars == <<ppc, propIn, rois, rpn_scores, rois_shape>>

targetVars == <<tpc, gt_boxes>>

vars == <<headVars, layers, lossVars, propVars, targetVars>>

None == "None"

(***************************************************************************)
(* Bounds of the model.                                                    *)
(***************************************************************************)
MaxNumAnchors == 2      \* num_anchors argument ranges over 1..MaxNumAnchors
MaxSteps == 2           \* train_step calls after construction

(***************************************************************************)
(* Inputs.                                                                 *)
(***************************************************************************)
Modes == {"TRAIN", "TEST", "VAL"}          \* mode argument; "VAL" is neither
TestModes == {"nms", "top", "fast"}        \* cfg.TEST.MODE; "fast" is neither
Tags == {None, "default"}                  \* tag argument (default None)

(***************************************************************************)
(* Network.__init__: every mapping starts empty.                           *)
(***************************************************************************)
HeadStart ==
    /\ cfg_test_mode \in TestModes
    /\ mode = None
    /\ tag = None
    /\ num_anchors = 0
    /\ pc = "init"
    /\ predictions = {}
    /\ anchor_targets = {}
    /\ losses = {}
    /\ layers_to_output = {}
    /\ calls = <<>>
    /\ error = "none"
    /\ steps = 0
    /\ last_run = [fetches |-> {}, ran |-> {}]
    /\ layers = {}

\* The variables of a forward pass, for the specifications that run none.
LossIdle ==
    /\ lpc = "idle"
    /\ rpn_cls_score = <<>>
    /\ rpn_labels = <<>>
    /\ rpn_bbox_pred = <<>>
    /\ rpn_bbox_targets = <<>>
    /\ rpn_bbox_inside_weights = <<>>
    /\ rpn_bbox_outside_weights = <<>>
    /\ sigma_rpn = 0
    /\ regularization_loss = <<0, 1>>
    /\ rpn_select = <<>>
    /\ in_loss_box = <<>>
    /\ rpn_cross_entropy = <<0, 1>>
    /\ rpn_loss_box = <<0, 1>>
    /\ total_loss = <<0, 1>>

\* The variables of a proposal layer, for the specifications that run none.
PropIdle ==
    /\ ppc = "idle"
    /\ im_info = <<0, 0>>
    /\ anchors = <<>>
    /\ rpn_cls_prob = <<>>
    /\ rpn_bbox_deltas = <<>>
    /\ rois = <<>>
    /\ rpn_scores = <<>>
    /\ rois_shape = <<>>

\* The variables of the anchor-target layer, likewise.
TargetIdle ==
    /\ tpc = "idle"
    /\ gt_boxes = <<>>

Init == HeadStart /\ LossIdle /\ PropIdle /\ TargetIdle

(***************************************************************************)
(* create_architecture, lines 330-348: store the arguments, then           *)
(* `assert tag != None`.                                                   *)
(***************************************************************************)
CreateArchitecture ==
    /\ pc = "init"
    /\ \E m \in Modes, t \in Tags, na \in 1..MaxNumAnchors :
          /\ mode' = m
          /\ tag' = t
          /\ num_anchors' = na
          /\ IF t = None
                THEN /\ error' = "AssertionError"
                     /\ pc' = "failed"
                ELSE /\ error' = error
                     /\ pc' = "build_network"
    /\ UNCHANGED <<cfg_test_mode, predictions, anchor_targets, losses,
                   layers_to_output, calls, steps, last_run, layers, lossVars, propVars, targetVars>>

\* Mutant: everything that is not a test run counts as training.
training_AnyButTest == mode # "TEST"

\* is_training as create_architecture passes it down (line 345, 363).
training == mode = "TRAIN"
\* line 346
testing == mode = "TEST"

\* Keys _anchor_target_layer stores (lines 137-140).
AnchorTargetKeys == {"rpn_labels", "rpn_bbox_targets",
                     "rpn_bbox_inside_weights", "rpn_bbox_outside_weights"}

\* Keys _region_proposal stores (lines 314-319).
PredictionKeys == {"rpn_cls_score", "rpn_cls_score_reshape", "rpn_cls_prob",
                   "rpn_cls_pred", "rpn_bbox_pred", "rois"}

\* Keys _build_losses stores (lines 229-231).
LossKeys == {"rpn_cross_entropy", "rpn_loss_box", "total_loss"}

(***************************************************************************)
(* Layers the branch of _region_proposal builds (lines 303-312), in call   *)
(* order; "raise" stands for `raise NotImplementedError`.                  *)
(***************************************************************************)
\* Mutant: an unknown cfg.TEST.MODE falls back to the NMS layer.
RegionProposalBranch_DefaultNms(is_training, test_mode) ==
    IF is_training
        THEN <<"proposal_layer", "anchor_target_layer">>
        ELSE IF test_mode = "top" THEN <<"proposal_top_layer">>
        ELSE <<"proposal_layer">>

RegionProposalBranch(is_training, test_mode) ==
    IF is_training
        THEN <<"proposal_layer", "anchor_target_layer">>
        ELSE IF test_mode = "nms" THEN <<"proposal_layer">>
        ELSE IF test_mode = "top" THEN <<"proposal_top_layer">>
        ELSE <<"raise">>

Range(s) == {s[i] : i \in DOMAIN s}

\* What the subclass's _image_to_head (abstract, lines 323-328; called at
\* line 170) leaves in self._layers: nothing, or the 'head' feature map.
HeadLayerKeys == {{}, {"head"}}

(***************************************************************************)
(* _build_network (lines 161-179) with _anchor_component and               *)
(* _region_proposal (lines 269-321), then `layers_to_output = {'rois':     *)
(* rois}` (line 365).  A NotImplementedError leaves before line 314, so    *)
(* no prediction is stored.                                                *)
(***************************************************************************)
BuildNetwork ==
    /\ pc = "build_network"
    /\ LET branch == RegionProposalBranch(training, cfg_test_mode) IN
          IF "raise" \in Range(branch)
             THEN /\ error' = "NotImplementedError"
                  /\ pc' = "failed"
                  /\ UNCHANGED <<calls, predictions, anchor_targets,
                                 layers_to_output>>
             ELSE /\ calls' = calls \o branch
                  /\ anchor_targets' =
                        IF "anchor_target_layer" \in Range(branch)
                           THEN anchor_targets \cup AnchorTargetKeys
                           ELSE anchor_targets
                  /\ predictions' = predictions \cup PredictionKeys
                  /\ layers_to_output' = {"rois"}
                  /\ error' = error
                  /\ pc' = "heads"
    /\ layers' \in HeadLayerKeys
    /\ UNCHANGED <<cfg_test_mode, mode, tag, num_anchors, losses, steps, last_run, lossVars, propVars, targetVars>>

(***************************************************************************)
(* Keys _build_losses reads before it stores anything (lines 202-215).     *)
(***************************************************************************)
BuildLossesReadsPredictions == {"rpn_cls_score_reshape", "rpn_bbox_pred"}
BuildLossesReadsTargets == AnchorTargetKeys

(***************************************************************************)
(* create_architecture lines 370-392.  testing: rescale                    *)
(* self._predictions["bbox_pred"] in place, a lookup of a key; otherwise   *)
(* _build_losses and layers_to_output.update(self._losses).  A lookup of   *)
(* a key that was never stored raises KeyError.                            *)
(***************************************************************************)
LossesOrRescale ==
    /\ pc = "heads"
    /\ IF testing
          THEN IF "bbox_pred" \in predictions
                  THEN /\ pc' = "finish"
                       /\ UNCHANGED <<error, losses, layers_to_output, calls>>
                  ELSE /\ error' = "KeyError"
                       /\ pc' = "failed"
                       /\ UNCHANGED <<losses, layers_to_output, calls>>
          ELSE IF /\ BuildLossesReadsPredictions \subseteq predictions
                  /\ BuildLossesReadsTargets \subseteq anchor_targets
                  THEN /\ losses' = losses \cup LossKeys
                       /\ layers_to_output' = layers_to_output \cup LossKeys
                       /\ calls' = Append(calls, "build_losses")
                       /\ pc' = "finish"
                       /\ error' = error
                  ELSE /\ error' = "KeyError"
                       /\ pc' = "failed"
                       /\ UNCHANGED <<losses, layers_to_output, calls>>
    /\ UNCHANGED <<cfg_test_mode, mode, tag, num_anchors, predictions,
                   anchor_targets, steps, last_run, layers, lossVars, propVars, targetVars>>

(***************************************************************************)
(* create_architecture lines 394-396: add the predictions and return.      *)
(***************************************************************************)
Finish ==
    /\ pc = "finish"
    /\ layers_to_output' = layers_to_output \cup predictions
    /\ pc' = "built"
    /\ UNCHANGED <<cfg_test_mode, mode, tag, num_anchors, predictions,
                   anchor_targets, losses, calls, error, steps, last_run, layers, lossVars, propVars, targetVars>>

(***************************************************************************)
(* sess.run(fetches): TensorFlow 1 runs the operations the fetched tensors *)
(* depend on and no other.  The dependencies are those of the graph the    *)
(* construction builds.                                                    *)
(***************************************************************************)
\* Direct inputs of a tensor of the graph: the py_func of _proposal_layer
\* (lines 103-108), of _anchor_target_layer (lines 125-129), the reshapes
\* and softmax of _region_proposal (lines 289-296), _build_losses (lines
\* 202-227), the merged summaries (lines 142, 177, 233, 379-390; the
\* validation summaries of line 391 are the ground-truth image and the
\* losses), and the caller's train_op, the minimisation of the total loss.
TensorInputs(t) ==
    IF t = "rois" THEN {"rpn_cls_prob", "rpn_bbox_pred"}
    ELSE IF t \in AnchorTargetKeys THEN {"rpn_cls_score"}
    ELSE IF t = "rpn_cls_score_reshape" THEN {"rpn_cls_score"}
    ELSE IF t \in {"rpn_cls_prob", "rpn_cls_pred"} THEN {"rpn_cls_score_reshape"}
    ELSE IF t = "rpn_cross_entropy" THEN {"rpn_cls_score_reshape", "rpn_labels"}
    ELSE IF t = "rpn_loss_box" THEN {"rpn_bbox_pred"} \cup AnchorTargetKeys
    ELSE IF t = "total_loss" THEN {"rpn_cross_entropy", "rpn_loss_box"}
    ELSE IF t = "summary_op" THEN PredictionKeys \cup AnchorTargetKeys \cup LossKeys
    ELSE IF t = "summary_op_val" THEN LossKeys
    ELSE IF t = "train_op" THEN {"total_loss"}
    ELSE {}

RECURSIVE Ancestors(_)
\* The fetched tensors and everything they depend on.
Ancestors(S) ==
    LET T == S \cup UNION {TensorInputs(t) : t \in S}
    IN IF T = S THEN S ELSE Ancestors(T)

\* The layer, among those built, whose operation computes tensor t.
ProducedBy(t, built) ==
    IF t = "rois"
       THEN Range(built) \cap {"proposal_layer", "proposal_top_layer"}
    ELSE IF t \in AnchorTargetKeys THEN Range(built) \cap {"anchor_target_layer"}
    ELSE IF t \in LossKeys THEN Range(built) \cap {"build_losses"}
    ELSE {}

\* Mutant: a run executes every layer that was built.
LayersRun_AllBuilt(fetches, built) == Range(built)

\* The layers one sess.run executes.
LayersRun(fetches, built) ==
    UNION {ProducedBy(t, built) : t \in Ancestors(fetches)}

SessRun(fetches) ==
    last_run' = [fetches |-> fetches, ran |-> LayersRun(fetches, calls)]

\* What train_step fetches (lines 433-436) and train_step_with_summary
\* (lines 443-447).
TrainStepFetches == LossKeys \cup {"train_op"}
TrainStepWithSummaryFetches == LossKeys \cup {"summary_op", "train_op"}

(***************************************************************************)
(* train_step (lines 430-438): looks up the three losses and runs them     *)
(* with train_op.                                                          *)
(***************************************************************************)
TrainStep ==
    /\ pc = "built"
    /\ steps < MaxSteps
    /\ IF LossKeys \subseteq losses
          THEN /\ steps' = steps + 1
               /\ SessRun(TrainStepFetches)
               /\ UNCHANGED <<pc, error>>
          ELSE /\ error' = "KeyError"
               /\ pc' = "failed"
               /\ UNCHANGED <<steps, last_run>>
    /\ UNCHANGED <<cfg_test_mode, mode, tag, num_anchors, predictions,
                   anchor_targets, losses, layers_to_output, calls, layers, lossVars, propVars, targetVars>>

(***************************************************************************)
(* train_step_with_summary (lines 440-449): the same with the merged       *)
(* summaries fetched too.                                                  *)
(***************************************************************************)
TrainStepWithSummary ==
    /\ pc = "built"
    /\ steps < MaxSteps
    /\ IF LossKeys \subseteq losses
          THEN /\ steps' = steps + 1
               /\ SessRun(TrainStepWithSummaryFetches)
               /\ UNCHANGED <<pc, error>>
          ELSE /\ error' = "KeyError"
               /\ pc' = "failed"
               /\ UNCHANGED <<steps, last_run>>
    /\ UNCHANGED <<cfg_test_mode, mode, tag, num_anchors, predictions,
                   anchor_targets, losses, layers_to_output, calls, layers, lossVars, propVars, targetVars>>

\* Keys test_image looks up in self._predictions (lines 416-419).
TestImageReads == {"cls_score", "cls_prob", "bbox_pred", "rois"}

(***************************************************************************)
(* test_image (lines 412-421): looks up four predictions and runs them.    *)
(***************************************************************************)
TestImage ==
    /\ pc = "built"
    /\ IF TestImageReads \subseteq predictions
          THEN /\ SessRun(TestImageReads)
               /\ UNCHANGED <<pc, error>>
          ELSE /\ error' = "KeyError"
               /\ pc' = "failed"
               /\ UNCHANGED last_run
    /\ UNCHANGED <<cfg_test_mode, mode, tag, num_anchors, predictions,
                   anchor_targets, losses, layers_to_output, calls, steps, layers, lossVars, propVars, targetVars>>

\* What get_summary fetches (line 426).
GetSummaryFetches == {"summary_op_val"}

(***************************************************************************)
(* get_summary (lines 423-428): runs the validation summaries, which the   *)
(* construction merges only when it is not testing (line 391).             *)
(***************************************************************************)
GetSummary ==
    /\ pc = "built"
    /\ IF testing
          THEN /\ error' = "AttributeError"
               /\ pc' = "failed"
               /\ UNCHANGED last_run
          ELSE /\ SessRun(GetSummaryFetches)
               /\ UNCHANGED <<pc, error>>
    /\ UNCHANGED <<cfg_test_mode, mode, tag, num_anchors, predictions,
                   anchor_targets, losses, layers_to_output, calls, steps, layers, lossVars, propVars, targetVars>>

(***************************************************************************)
(* extract_head (lines 406-409): looks up 'head' in self._layers and runs  *)
(* it; the lookup raises KeyError when _image_to_head stored no such key.  *)
(***************************************************************************)
ExtractHead ==
    /\ pc = "built"
    /\ IF "head" \in layers
          THEN /\ SessRun({"head"})
               /\ UNCHANGED <<pc, error>>
          ELSE /\ error' = "KeyError(layers)"
               /\ pc' = "failed"
               /\ UNCHANGED last_run
    /\ UNCHANGED <<cfg_test_mode, mode, tag, num_anchors, predictions,
                   anchor_targets, losses, layers_to_output, calls, steps, layers, lossVars, propVars, targetVars>>

Next ==
    \/ CreateArchitecture
    \/ BuildNetwork
    \/ LossesOrRescale
    \/ Finish
    \/ TrainStep
    \/ TrainStepWithSummary
    \/ TestImage
    \/ GetSummary
    \/ ExtractHead

Spec == Init /\ [][Next]_vars

(***************************************************************************)
(* Claims about the head's dispatch.                                       *)
(***************************************************************************)
\* _build_network has returned or raised.
NetworkBuilt == pc \in {"heads", "finish", "built"} \/
                (pc = "failed" /\ error # "AssertionError")

\* C1: built in TEST mode, exactly one decoder runs, the one cfg.TEST.MODE
\* names: 'nms' runs only the NMS proposal layer, 'top' only the TopK
\* proposal layer; any other value raises NotImplementedError with no
\* decoder run and no prediction stored.
C1_TestDispatch ==
    (mode = "TEST" /\ NetworkBuilt) =>
        /\ cfg_test_mode = "nms" =>
              /\ calls = <<"proposal_layer">>
              /\ error # "NotImplementedError"
        /\ cfg_test_mode = "top" =>
              /\ calls = <<"proposal_top_layer">>
              /\ error # "NotImplementedError"
        /\ cfg_test_mode \notin {"nms", "top"} =>
              /\ error = "NotImplementedError"
              /\ calls = <<>>
              /\ predictions = {}

C1_Witness ==
    /\ mode = "TEST"
    /\ cfg_test_mode = "fast"
    /\ pc = "failed"
    /\ error = "NotImplementedError"

\* Built in TRAIN mode, the graph holds the NMS proposal layer and the
\* anchor-target layer, then the losses, whatever cfg.TEST.MODE is, and
\* never the TopK layer.
TrainBuildsBoth ==
    (mode = "TRAIN" /\ NetworkBuilt) =>
        /\ Len(calls) >= 2
        /\ calls[1] = "proposal_layer"
        /\ calls[2] = "anchor_target_layer"
        /\ "proposal_top_layer" \notin Range(calls)
        /\ error # "NotImplementedError"
        /\ (pc \in {"finish", "built"} \/ steps > 0) =>
              calls = <<"proposal_layer", "anchor_target_layer", "build_losses">>
        /\ pc # "heads" => LossKeys \subseteq losses

\* The last run was a forward pass of the head of a TRAIN network: a
\* train_step, a train_step_with_summary or a get_summary (extract_head
\* runs the backbone only).
TrainPassMade ==
    /\ mode = "TRAIN"
    /\ last_run.fetches \in {TrainStepFetches, TrainStepWithSummaryFetches,
                              GetSummaryFetches}

\* Original statement of C2: built in TRAIN mode, every forward pass runs
\* the NMS proposal decoding, the anchor-target assignment and the loss
\* computation, and the TopK decoder is never run.
C2_EveryPassRunsBoth ==
    TrainPassMade =>
        /\ "proposal_layer" \in last_run.ran
        /\ "anchor_target_layer" \in last_run.ran
        /\ "build_losses" \in last_run.ran
        /\ "proposal_top_layer" \notin last_run.ran

\* C2 (amended): built in TRAIN mode, the graph holds the NMS proposal
\* decoding and the anchor-target assignment followed by the losses,
\* whatever cfg.TEST.MODE is, and never the TopK decoder; every forward
\* pass runs the anchor-target assignment and the loss computation and
\* never the TopK decoder; it runs the NMS proposal decoding exactly when
\* it fetches the merged training summaries (_summary_op), which depend on
\* the proposals.
C2_TrainBuildsBothRunsTargets ==
    /\ TrainBuildsBoth
    /\ TrainPassMade =>
          /\ "anchor_target_layer" \in last_run.ran
          /\ "build_losses" \in last_run.ran
          /\ "proposal_top_layer" \notin last_run.ran
          /\ "proposal_layer" \in last_run.ran
                <=> "summary_op" \in last_run.fetches

\* A plain train_step on a TRAIN network configured for 'top': the NMS
\* layer is in the graph and was not run.
C2_Witness ==
    /\ mode = "TRAIN"
    /\ cfg_test_mode = "top"
    /\ steps > 0
    /\ calls = <<"proposal_layer", "anchor_target_layer", "build_losses">>
    /\ last_run.fetches = TrainStepFetches
    /\ last_run.ran = {"anchor_target_layer", "build_losses"}

\* A get_summary: the anchor-target layer and the losses were run, the
\* NMS layer was not.
GetSummaryPassReached ==
    /\ mode = "TRAIN"
    /\ last_run.fetches = GetSummaryFetches
    /\ last_run.ran = {"anchor_target_layer", "build_losses"}

\* A train_step_with_summary: all three were run.
SummaryPassReached ==
    /\ mode = "TRAIN"
    /\ steps > 0
    /\ last_run.fetches = TrainStepWithSummaryFetches
    /\ last_run.ran = {"proposal_layer", "anchor_target_layer", "build_losses"}

(***************************************************************************)
(* Claims about the mode and the result mappings.                          *)
(***************************************************************************)
LossesOnlyInTrain ==
    /\ (losses # {} \/ layers_to_output \cap LossKeys # {}) => mode = "TRAIN"
    /\ ("anchor_target_layer" \in Range(calls) \/ "build_losses" \in Range(calls))
          => mode = "TRAIN"
    /\ anchor_targets # {} => mode = "TRAIN"
    /\ (mode = "TRAIN" /\ NetworkBuilt) =>
          /\ "anchor_target_layer" \in Range(calls)
          /\ anchor_targets = AnchorTargetKeys
          /\ pc # "heads" => /\ "build_losses" \in Range(calls)
                             /\ losses = LossKeys
                             /\ LossKeys \subseteq layers_to_output
    /\ (mode \notin {None, "TRAIN"} /\ pc \notin {"build_network", "heads"}) =>
          /\ losses = {}
          /\ "build_losses" \notin Range(calls)

\* The mode is the create_architecture argument and nothing changes it later.
ModeFixed == [][mode # None => mode' = mode]_vars

\* C11: the mode is fixed by create_architecture; the anchor-target layer is
\* run and the losses are built and put in the returned mapping if and only
\* if the mode is TRAIN; under any other mode no loss is ever built.
C11_LossesIffTrain == []LossesOnlyInTrain /\ ModeFixed

C11_Witness ==
    /\ mode = "TRAIN"
    /\ pc = "built"
    /\ steps > 0
    /\ losses = LossKeys
    /\ LossKeys \subseteq layers_to_output
    /\ "anchor_target_layer" \in Range(calls)

\* A mode other than TRAIN: the construction is over and no loss exists.
C11_OtherModeReached ==
    /\ mode = "VAL"
    /\ cfg_test_mode = "nms"
    /\ pc = "failed"
    /\ error = "KeyError"
    /\ losses = {}

\* create_architecture is over: it returned or an exception left it.
ConstructionOver == pc \in {"built", "failed"}

\* C12: in both modes no key is looked up in a result mapping before it was
\* stored, so no lookup raises KeyError during create_architecture or a
\* later train_step or test_image, and create_architecture in TEST mode
\* with cfg.TEST.MODE 'nms' or 'top' returns a mapping that holds 'rois'.
C12_NoReadBeforeWrite ==
    /\ mode \in {"TRAIN", "TEST"} => error # "KeyError"
    /\ (mode = "TEST" /\ tag # None /\ cfg_test_mode \in {"nms", "top"}
        /\ ConstructionOver) =>
          /\ pc = "built"
          /\ "rois" \in layers_to_output

\* What the code does in TEST mode: the rescaling looks up 'bbox_pred',
\* which no step stores, so the construction never returns.
TestModeNeverReturns ==
    (mode = "TEST" /\ ConstructionOver) =>
        /\ pc = "failed"
        /\ error \in {"AssertionError", "NotImplementedError", "KeyError"}
        /\ (tag # None /\ cfg_test_mode \in {"nms", "top"}) =>
              /\ error = "KeyError"
              /\ "bbox_pred" \notin predictions
              /\ predictions = PredictionKeys

\* The TEST-mode construction has reached the rescaling and failed there.
TestModeKeyErrorReached ==
    /\ mode = "TEST"
    /\ cfg_test_mode = "top"
    /\ pc = "failed"
    /\ error = "KeyError"
    /\ calls = <<"proposal_top_layer">>


(***************************************************************************)
(* Exact arithmetic for the loss tensors.  A number is a fraction <<n, d>> *)
(* in lowest terms with d > 0; NaN (the mean of an empty tensor) is        *)
(* <<0, 0>> and is absorbing.                                              *)
(***************************************************************************)
AbsInt(x) == IF x < 0 THEN -x ELSE x

RECURSIVE GCD(_, _)
GCD(a, b) == IF b = 0 THEN a ELSE GCD(b, a % b)

NaN == <<0, 0>>
IsNaN(a) == a[2] = 0

Rat(n, d) ==
    IF d = 0 THEN NaN
    ELSE LET g == GCD(AbsInt(n), AbsInt(d))
             sgn == IF d < 0 THEN -1 ELSE 1
         IN <<sgn * (n \div g), AbsInt(d) \div g>>

R(n) == <<n, 1>>

RAdd(a, b) == IF IsNaN(a) \/ IsNaN(b) THEN NaN
              ELSE Rat(a[1] * b[2] + b[1] * a[2], a[2] * b[2])
RSub(a, b) == IF IsNaN(a) \/ IsNaN(b) THEN NaN
              ELSE Rat(a[1] * b[2] - b[1] * a[2], a[2] * b[2])
RMul(a, b) == IF IsNaN(a) \/ IsNaN(b) THEN NaN
              ELSE Rat(a[1] * b[1], a[2] * b[2])
RDiv(a, b) == IF IsNaN(a) \/ IsNaN(b) THEN NaN
              ELSE Rat(a[1] * b[2], a[2] * b[1])
RAbs(a) == <<AbsInt(a[1]), a[2]>>
RLess(a, b) == ~IsNaN(a) /\ ~IsNaN(b) /\ a[1] * b[2] < b[1] * a[2]

RECURSIVE RSum(_)
RSum(s) == IF s = <<>> THEN R(0) ELSE RAdd(s[1], RSum(Tail(s)))

(***************************************************************************)
(* Tensor operations, on sequences nested by rank.                         *)
(***************************************************************************)
RECURSIVE TfWhere(_, _)
\* tf.where(cond) on a rank-1 tensor: the indices where cond holds, in
\* order, one row <<i>> per index (shape (K, 1)); TfWhere(cond, 1).
TfWhere(cond, i) ==
    IF i > Len(cond) THEN <<>>
    ELSE IF cond[i] THEN <<<<i>>>> \o TfWhere(cond, i + 1)
    ELSE TfWhere(cond, i + 1)

\* tf.gather(params, indices) with indices of shape (K, 1): the result has
\* shape (K, 1) + params.shape[1:].
TfGather(params, indices) ==
    [k \in DOMAIN indices |->
        [j \in DOMAIN indices[k] |-> params[indices[k][j]]]]

RECURSIVE Concat(_)
Concat(ss) == IF ss = <<>> THEN <<>> ELSE ss[1] \o Concat(Tail(ss))

\* tf.reshape(t, [-1, w]) of a tensor of shape (K, 1, w): rows of width w.
ReshapeRows(t) == Concat(t)

\* tf.reshape(t, [-1]) of a tensor of shape (K, 1).
ReshapeFlat(t) == Concat(t)

\* Elementwise difference and product of two rank-3 tensors of one shape.
T3Sub(A, B) ==
    [k \in DOMAIN A |-> [j \in DOMAIN A[k] |->
        [c \in DOMAIN A[k][j] |-> RSub(A[k][j][c], B[k][j][c])]]]

T3Mul(A, B) ==
    [k \in DOMAIN A |-> [j \in DOMAIN A[k] |->
        [c \in DOMAIN A[k][j] |-> RMul(A[k][j][c], B[k][j][c])]]]

\* tf.reduce_sum(t, axis=[1]) of a rank-3 tensor (K, J, C): shape (K, C).
ReduceSumAxis1(t) ==
    [k \in DOMAIN t |->
        [c \in DOMAIN t[k][1] |->
            RSum([j \in DOMAIN t[k] |-> t[k][j][c]])]]

\* tf.reduce_mean(t) of a rank-1 tensor: NaN when it is empty.
ReduceMean1(t) == RDiv(RSum(t), R(Len(t)))

\* tf.reduce_mean(t) of a rank-2 tensor: the mean of all its elements.
ReduceMean2(t) == ReduceMean1(Concat(t))

(***************************************************************************)
(* _smooth_l1_loss (lines 181-197).                                        *)
(***************************************************************************)
\* Mutant: sigma is used where its square belongs.
InLossBox_SigmaNotSquared(in_box_diff, sigma) ==
    LET sigma_2 == R(sigma)
        abs_in_box_diff == RAbs(in_box_diff)
        smoothL1_sign == IF RLess(abs_in_box_diff, RDiv(R(1), sigma_2))
                            THEN R(1) ELSE R(0)
    IN RAdd(RMul(RMul(RMul(in_box_diff, in_box_diff), RDiv(sigma_2, R(2))),
                 smoothL1_sign),
            RMul(RSub(abs_in_box_diff, RDiv(<<1, 2>>, sigma_2)),
                 RSub(R(1), smoothL1_sign)))

\* Mutant: the linear branch subtracts 0.5, not 0.5 / sigma_2.
InLossBox_OffsetNotScaled(in_box_diff, sigma) ==
    LET sigma_2 == R(sigma * sigma)
        abs_in_box_diff == RAbs(in_box_diff)
        smoothL1_sign == IF RLess(abs_in_box_diff, RDiv(R(1), sigma_2))
                            THEN R(1) ELSE R(0)
    IN RAdd(RMul(RMul(RMul(in_box_diff, in_box_diff), RDiv(sigma_2, R(2))),
                 smoothL1_sign),
            RMul(RSub(abs_in_box_diff, <<1, 2>>),
                 RSub(R(1), smoothL1_sign)))

\* Lines 182, 185-188 on one element: sigma_2 = sigma ** 2, then
\* pow(d, 2) * (sigma_2 / 2.) * sign + (|d| - (0.5 / sigma_2)) * (1. - sign)
\* with sign = to_float(less(|d|, 1. / sigma_2)).
InLossBox(in_box_diff, sigma) ==
    LET sigma_2 == R(sigma * sigma)
        abs_in_box_diff == RAbs(in_box_diff)
        smoothL1_sign == IF RLess(abs_in_box_diff, RDiv(R(1), sigma_2))
                            THEN R(1) ELSE R(0)
    IN RAdd(RMul(RMul(RMul(in_box_diff, in_box_diff), RDiv(sigma_2, R(2))),
                 smoothL1_sign),
            RMul(RSub(abs_in_box_diff, RDiv(<<1, 2>>, sigma_2)),
                 RSub(R(1), smoothL1_sign)))

\* Lines 183-188: the per-coordinate values of the whole tensor.
SmoothL1InLoss(bbox_pred, bbox_targets, bbox_inside_weights, sigma) ==
    LET box_diff == T3Sub(bbox_pred, bbox_targets)
        in_box_diff == T3Mul(bbox_inside_weights, box_diff)
    IN [k \in DOMAIN in_box_diff |-> [j \in DOMAIN in_box_diff[k] |->
          [c \in DOMAIN in_box_diff[k][j] |->
              InLossBox(in_box_diff[k][j][c], sigma)]]]

\* Lines 189-197 with dim=[1]: weight, reduce_sum over axis 1, reduce_mean.
SmoothL1Loss(bbox_pred, bbox_targets, bbox_inside_weights, bbox_outside_weights, sigma) ==
    LET in_loss == SmoothL1InLoss(bbox_pred, bbox_targets,
                                  bbox_inside_weights, sigma)
        out_loss_box == T3Mul(bbox_outside_weights, in_loss)
    IN ReduceMean2(ReduceSumAxis1(out_loss_box))

(***************************************************************************)
(* _reshape_layer (lines 69-79) on a tensor of shape (H, W, C), the batch  *)
(* axis of length 1 dropped: transpose to (C, H, W), reshape to            *)
(* (num_dim, -1, W), transpose to (-1, W, num_dim).                        *)
(***************************************************************************)
ReshapeLayer(bottom, num_dim) ==
    LET H == Len(bottom)
        W == Len(bottom[1])
        C == Len(bottom[1][1])
        rows == (C * H) \div num_dim
        to_caffe(f) == bottom[((f % (H * W)) \div W) + 1][(f % W) + 1][(f \div (H * W)) + 1]
    IN [r \in 1..rows |-> [w \in 1..W |-> [k \in 1..num_dim |->
           to_caffe(((k - 1) * rows + (r - 1)) * W + (w - 1))]]]

\* Line 202: tf.reshape(rpn_cls_score_reshape, [-1, 2]).
ScoreRowsOf(cls_score) == Concat(ReshapeLayer(cls_score, 2))

(***************************************************************************)
(* _build_losses (lines 199-235).                                          *)
(***************************************************************************)
\* tf.nn.sparse_softmax_cross_entropy_with_logits on one row of two integer
\* logits: log(1 + exp(other - own)), in thousandths; a label outside
\* {0, 1} has no cross-entropy (NaN).
SoftplusMilli(d) ==
    CASE d = -2 -> 127 [] d = -1 -> 313 [] d = 0 -> 693
      [] d = 1 -> 1313 [] d = 2 -> 2127

SparseSoftmaxCrossEntropy(logits, label) ==
    IF label = 0 THEN Rat(SoftplusMilli(logits[2] - logits[1]), 1000)
    ELSE IF label = 1 THEN Rat(SoftplusMilli(logits[1] - logits[2]), 1000)
    ELSE NaN

\* Line 204: rpn_select = tf.where(tf.not_equal(rpn_label, -1)).
RpnSelect(labels) ==
    TfWhere([i \in DOMAIN labels |-> labels[i] # -1], 1)

\* Lines 206-209: gather the selected rows, reshape, mean cross-entropy.
RpnCrossEntropy(cls_score, labels, select) ==
    LET score_sel == ReshapeRows(TfGather(cls_score, select))
        label_sel == ReshapeFlat(TfGather(labels, select))
    IN ReduceMean1([k \in DOMAIN score_sel |->
                       SparseSoftmaxCrossEntropy(score_sel[k], label_sel[k])])

\* Lines 217-223: gather the four box tensors with the same rpn_select (no
\* reshape follows, so each keeps shape (K, 1, 4)) and call _smooth_l1_loss.
RpnLossBox(bbox_pred, bbox_targets, inside_weights, outside_weights, select, sigma) ==
    SmoothL1Loss(TfGather(bbox_pred, select), TfGather(bbox_targets, select),
                 TfGather(inside_weights, select),
                 TfGather(outside_weights, select), sigma)

\* Mutant: the regularization term is left out of the total.
TotalLoss_NoRegularization(cross_entropy, loss_box, regu_loss) ==
    RAdd(cross_entropy, loss_box)

\* Lines 225-227.
TotalLoss(cross_entropy, loss_box, regu_loss) ==
    LET rpn_loss == RAdd(cross_entropy, loss_box)
    IN RAdd(rpn_loss, regu_loss)

(***************************************************************************)
(* SpecLoss: one forward pass of _build_losses on a bounded set of inputs. *)
(*                                                                         *)
(* An anchor is (h, w, a): cell (h, w) of the feature map, shape a of the  *)
(* A shapes.  It is numbered the way the box tensors list it: the box      *)
(* tensors have shape (1, H, W, 4A) (lines 132-134, 299-301) and their     *)
(* reshape to [-1, 4] (lines 217-220) puts anchor (h, w, a) in row         *)
(* (h * W + w) * A + a.  The two scores of anchor a of a cell are channels *)
(* a and A + a of rpn_cls_score, the pair _reshape_layer puts in one row.  *)
(***************************************************************************)
MaxLossDim == 2         \* H, W and A of the forward pass: 1..MaxLossDim each
MaxLossAnchors == 4     \* anchors H x W x A of the forward pass: 1..MaxLossAnchors

\* Feature-map shapes <<H, W, A>>.
LossShapes ==
    {sh \in (1..MaxLossDim) \X (1..MaxLossDim) \X (1..MaxLossDim) :
        sh[1] * sh[2] * sh[3] <= MaxLossAnchors}

NumAnchorsOf(shape) == shape[1] * shape[2] * shape[3]

\* Row of anchor (h, w, a) in the box tensors reshaped to [-1, 4].
BoxRow(h, w, a, shape) == ((h - 1) * shape[2] + (w - 1)) * shape[3] + a

\* The anchor (as its box row) whose scores are in row i of the score
\* tensor reshaped to [-1, 2]: _reshape_layer gives shape (A * H, W, 2) with
\* anchor (h, w, a) in row a * H + h, column w.  The labels have shape
\* (1, 1, A * H, W) (line 131) and the cross-entropy pairs label i with
\* score row i (lines 206-209).
ScoreRowAnchor(i, shape) ==
    LET r == (i - 1) \div shape[2]
        w == (i - 1) % shape[2]
        a == r \div shape[1]
        h == r % shape[1]
    IN BoxRow(h + 1, w + 1, a + 1, shape)

\* Cell and shape of the anchor in box row j.
AnchorH(j, shape) == (((j - 1) \div shape[3]) \div shape[2]) + 1
AnchorW(j, shape) == (((j - 1) \div shape[3]) % shape[2]) + 1
AnchorA(j, shape) == ((j - 1) % shape[3]) + 1

Sigmas == {1, 3}                        \* sigma=1.0 (default), sigma_rpn=3.0
ReguLosses == {R(0), <<1, 100>>}        \* sums of the L2 weight-decay terms

Vec4(a, b, c, d) == <<a, b, c, d>>
Zero4 == Vec4(R(0), R(0), R(0), R(0))
One4 == Vec4(R(1), R(1), R(1), R(1))

Half4 == Vec4(<<1, 2>>, <<1, 2>>, <<1, 2>>, <<1, 2>>)
Two4 == Vec4(R(2), R(2), R(2), R(2))

\* What the network and the anchor-target layer give one anchor: its
\* label, its two scores, its rows of the four box tensors.
\* A positive anchor has inside weights; the differences of the two cases
\* fall on both sides of, and exactly on, 1/sigma^2 for both sigmas.
PosCases ==
    { [label |-> 1, logits |-> <<2, 1>>,
       pred |-> Vec4(R(0), <<1, 18>>, <<1, 9>>, R(1)), target |-> Zero4,
       inside |-> One4, outside |-> One4],
      [label |-> 1, logits |-> <<0, 0>>,
       pred |-> Vec4(R(2), R(-1), <<-1, 18>>, <<1, 2>>),
       target |-> Vec4(R(0), R(0), R(0), R(1)),
       inside |-> Two4, outside |-> Half4] }

\* A negative anchor: no target, zero inside weights.
NegCases ==
    { [label |-> 0, logits |-> <<2, 1>>,
       pred |-> One4, target |-> Zero4, inside |-> Zero4, outside |-> One4] }

\* An ignored anchor: zero weights; its predictions are changed by
\* ForwardIgnoredChanged.
IgnoredCase ==
    [label |-> -1, logits |-> <<0, 0>>,
     pred |-> Zero4, target |-> Zero4, inside |-> Zero4, outside |-> Zero4]

AnchorCases == PosCases \cup NegCases \cup {IgnoredCase}

\* rpn_cls_score (H, W, 2A) of anchors numbered by box row: channel a is
\* the first score of shape a, channel A + a the second.
NetClsScore(cs, shape) ==
    [h \in 1..shape[1] |-> [w \in 1..shape[2] |-> [c \in 1..(2 * shape[3]) |->
        cs[BoxRow(h, w, ((c - 1) % shape[3]) + 1, shape)].logits[((c - 1) \div shape[3]) + 1]]]]

\* The Network variables, for the specifications that build no network.
HeadIdle == HeadStart /\ cfg_test_mode = "nms"

InitLoss ==
    /\ HeadIdle
    /\ PropIdle
    /\ TargetIdle
    /\ lpc = "input"
    /\ \E shape \in LossShapes :
         \E cs \in [1..NumAnchorsOf(shape) -> AnchorCases] :
            /\ rpn_cls_score = NetClsScore(cs, shape)
            /\ rpn_labels = [i \in 1..NumAnchorsOf(shape) |->
                                cs[ScoreRowAnchor(i, shape)].label]
            /\ rpn_bbox_pred = [j \in 1..NumAnchorsOf(shape) |-> cs[j].pred]
            /\ rpn_bbox_targets = [j \in 1..NumAnchorsOf(shape) |-> cs[j].target]
            /\ rpn_bbox_inside_weights =
                  [j \in 1..NumAnchorsOf(shape) |-> cs[j].inside]
            /\ rpn_bbox_outside_weights =
                  [j \in 1..NumAnchorsOf(shape) |-> cs[j].outside]
    /\ sigma_rpn \in Sigmas
    /\ regularization_loss \in ReguLosses
    /\ rpn_select = <<>>
    /\ in_loss_box = <<>>
    /\ rpn_cross_entropy = R(0)
    /\ rpn_loss_box = R(0)
    /\ total_loss = R(0)

\* Lines 225-231 once the two losses are known: what _build_losses stores.
LossRecord(select, in_loss, cross_entropy, loss_box, regu_loss) ==
    [rpn_select |-> select,
     in_loss_box |-> in_loss,
     rpn_cross_entropy |-> cross_entropy,
     rpn_loss_box |-> loss_box,
     total_loss |-> TotalLoss(cross_entropy, loss_box, regu_loss)]

LossesWith(select, cls_score, labels, bbox_pred, bbox_targets, inside_weights, outside_weights, sigma, regu_loss) ==
    LossRecord(select,
               SmoothL1InLoss(TfGather(bbox_pred, select),
                              TfGather(bbox_targets, select),
                              TfGather(inside_weights, select), sigma),
               RpnCrossEntropy(cls_score, labels, select),
               RpnLossBox(bbox_pred, bbox_targets, inside_weights,
                          outside_weights, select, sigma),
               regu_loss)

\* The outputs of _build_losses for given inputs (lines 202-231).
LossesOf(cls_score, labels, bbox_pred, bbox_targets, inside_weights, outside_weights, sigma, regu_loss) ==
    LossesWith(RpnSelect(labels), cls_score, labels, bbox_pred, bbox_targets,
               inside_weights, outside_weights, sigma, regu_loss)

StoreLosses(out) ==
    /\ rpn_select' = out.rpn_select
    /\ in_loss_box' = out.in_loss_box
    /\ rpn_cross_entropy' = out.rpn_cross_entropy
    /\ rpn_loss_box' = out.rpn_loss_box
    /\ total_loss' = out.total_loss

\* _build_losses on the inputs of the pass.
BuildLosses ==
    /\ lpc = "input"
    /\ lpc' = "done"
    /\ \E out \in {LossesOf(ScoreRowsOf(rpn_cls_score), rpn_labels,
                            rpn_bbox_pred, rpn_bbox_targets,
                            rpn_bbox_inside_weights,
                            rpn_bbox_outside_weights, sigma_rpn,
                            regularization_loss)} : StoreLosses(out)
    /\ UNCHANGED <<headVars, lossIn, propVars, targetVars>>

\* Shape <<H, W, A>> of the pass: tf.shape of rpn_cls_score, 2A channels.
FeatShape ==
    <<Len(rpn_cls_score), Len(rpn_cls_score[1]),
      Len(rpn_cls_score[1][1]) \div 2>>

\* Other predictions (two scores, box row) the network may give an anchor.
OtherPredictions ==
    { <<<<2, 1>>, One4>>,
      <<<<0, 0>>, Vec4(R(2), R(-1), <<-1, 9>>, <<1, 2>>)>> }

\* rpn_cls_score with the two scores of the anchor in box row j replaced.
WithScores(cls_score, j, shape, logits) ==
    [cls_score EXCEPT ![AnchorH(j, shape)][AnchorW(j, shape)] =
        [@ EXCEPT ![AnchorA(j, shape)] = logits[1],
                  ![shape[3] + AnchorA(j, shape)] = logits[2]]]

\* The same pass again with other predictions (scores and box deltas) for
\* one anchor whose label is ignore; everything else is as before.
ForwardIgnoredChanged ==
    /\ lpc = "done"
    /\ lpc' = "again"
    /\ \E i \in DOMAIN rpn_labels, p \in OtherPredictions :
         /\ rpn_labels[i] = -1
         /\ \E j \in {ScoreRowAnchor(i, FeatShape)} :
              /\ rpn_cls_score' = WithScores(rpn_cls_score, j, FeatShape, p[1])
              /\ rpn_bbox_pred' = [rpn_bbox_pred EXCEPT ![j] = p[2]]
         /\ \E out \in {LossesOf(ScoreRowsOf(rpn_cls_score'), rpn_labels,
                                 rpn_bbox_pred', rpn_bbox_targets,
                                 rpn_bbox_inside_weights,
                                 rpn_bbox_outside_weights, sigma_rpn,
                                 regularization_loss)} : StoreLosses(out)
    /\ UNCHANGED <<headVars, rpn_labels, rpn_bbox_targets,
                   rpn_bbox_inside_weights, rpn_bbox_outside_weights,
                   sigma_rpn, regularization_loss, propVars, targetVars>>

NextLoss == BuildLosses \/ ForwardIgnoredChanged

SpecLoss == InitLoss /\ [][NextLoss]_vars

(***************************************************************************)
(* Claims about the losses.                                                *)
(***************************************************************************)
\* _build_losses has stored its losses, in the first or the second pass.
LossesBuilt == lpc \in {"done", "again"}

\* Rows of the label tensor (and of the score tensor) whose label is
\* positive or negative, and the anchors these rows belong to.
SelectedRows == {i \in DOMAIN rpn_labels : rpn_labels[i] \in {0, 1}}
SelectedAnchors == {ScoreRowAnchor(i, FeatShape) : i \in SelectedRows}

\* diff = inside_w * (pred - target) of coordinate c of anchor i.
DiffOf(i, c) ==
    RMul(rpn_bbox_inside_weights[i][c],
         RSub(rpn_bbox_pred[i][c], rpn_bbox_targets[i][c]))

Sigma2 == R(sigma_rpn * sigma_rpn)
QuadraticValue(diff) == RMul(RMul(<<1, 2>>, Sigma2), RMul(diff, diff))
LinearValue(diff) == RSub(RAbs(diff), RDiv(<<1, 2>>, Sigma2))

\* Rows and coordinates of the gathered box tensors.
GatheredCoords == {<<k, c>> : k \in DOMAIN in_loss_box, c \in 1..4}
AnchorOfRow(k) == rpn_select[k][1]

\* Original statement of C3: the published total is the classification loss
\* plus the regression loss.
C3_TotalIsSumOfTwo ==
    LossesBuilt => total_loss = RAdd(rpn_cross_entropy, rpn_loss_box)

\* C3 (amended): the published total is the classification loss plus the
\* regression loss plus the regularization loss; it is the sum of the two
\* losses exactly when the regularization loss is zero (or the sum is NaN).
C3_TotalIncludesRegularization ==
    LossesBuilt =>
        /\ total_loss = RAdd(RAdd(rpn_cross_entropy, rpn_loss_box),
                             regularization_loss)
        /\ (total_loss = RAdd(rpn_cross_entropy, rpn_loss_box))
             <=> (regularization_loss = R(0) \/ IsNaN(total_loss))

C3_Witness ==
    /\ lpc = "done"
    /\ regularization_loss # R(0)
    /\ ~IsNaN(total_loss)
    /\ rpn_loss_box # R(0)

\* Row i of the reshaped score tensor holds the two scores of the anchor
\* ScoreRowAnchor names.
ScoreRowsFollowReshapeLayer ==
    lpc \in {"input", "done", "again"} =>
        \A i \in DOMAIN rpn_labels :
            LET j == ScoreRowAnchor(i, FeatShape)
                cell == rpn_cls_score[AnchorH(j, FeatShape)][AnchorW(j, FeatShape)]
            IN ScoreRowsOf(rpn_cls_score)[i] =
                  <<cell[AnchorA(j, FeatShape)],
                    cell[FeatShape[3] + AnchorA(j, FeatShape)]>>

RECURSIVE CrossEntropySum(_, _)
CrossEntropySum(S, rows) ==
    IF S = {} THEN R(0)
    ELSE LET i == CHOOSE x \in S : TRUE
         IN RAdd(SparseSoftmaxCrossEntropy(rows[i], rpn_labels[i]),
                 CrossEntropySum(S \ {i}, rows))

\* The classification loss is the mean cross-entropy over exactly the rows
\* labelled 1 or 0, each score row with the label of its own anchor.
ClassificationOverSelected ==
    LossesBuilt =>
        /\ Len(rpn_select) = Cardinality(SelectedRows)
        /\ {AnchorOfRow(k) : k \in DOMAIN rpn_select} = SelectedRows
        /\ rpn_cross_entropy =
              RDiv(CrossEntropySum(SelectedRows, ScoreRowsOf(rpn_cls_score)),
                   R(Cardinality(SelectedRows)))

\* The rows gathered from the box tensors are those of the anchors labelled
\* 1 or 0 (a box row's number is its anchor's).
RegressionOverSelected ==
    LossesBuilt =>
        /\ Len(in_loss_box) = Cardinality(SelectedAnchors)
        /\ {AnchorOfRow(k) : k \in DOMAIN in_loss_box} = SelectedAnchors

C4_IgnoredHasNoEffect ==
    [][(lpc = "done" /\ lpc' = "again") =>
          /\ rpn_cross_entropy' = rpn_cross_entropy
          /\ rpn_loss_box' = rpn_loss_box
          /\ rpn_select' = rpn_select
          /\ in_loss_box' = in_loss_box]_vars

\* C4: the classification loss is the mean cross-entropy over exactly the
\* anchors labelled 1 or 0, the regression loss is computed over the same
\* anchors, and a forward pass that differs only in the scores and box
\* prediction of an ignored anchor gives the same classification and
\* regression loss.
C4_LossOverSelectedAnchors ==
    /\ []ClassificationOverSelected
    /\ []RegressionOverSelected
    /\ C4_IgnoredHasNoEffect

\* What the code does: the box rows are gathered at the row numbers of the
\* selected labels, which list the anchors shape by shape, while the box
\* rows list them cell by cell.
RegressionGathersLabelRows ==
    LossesBuilt =>
        {AnchorOfRow(k) : k \in DOMAIN in_loss_box} = SelectedRows

\* A pass in which a positive anchor's box row is left out of the
\* regression loss and an ignored anchor's row is gathered in its place.
MisalignedGatherReached ==
    /\ lpc = "done"
    /\ \E j \in SelectedAnchors :
          j \notin {AnchorOfRow(k) : k \in DOMAIN in_loss_box}
    /\ \E k \in DOMAIN in_loss_box :
          AnchorOfRow(k) \notin SelectedAnchors
    /\ \E i \in DOMAIN rpn_labels : rpn_labels[i] = -1

\* C5: each stored per-coordinate value is 0.5 * sigma2 * diff^2 when
\* |diff| < 1/sigma2 and |diff| - 0.5/sigma2 otherwise, with
\* diff = inside_w * (pred - target) of the gathered anchor.
C5_PerCoordinate ==
    LossesBuilt =>
        \A kc \in GatheredCoords :
            LET diff == DiffOf(AnchorOfRow(kc[1]), kc[2])
            IN in_loss_box[kc[1]][1][kc[2]] =
                  IF RLess(RAbs(diff), RDiv(R(1), Sigma2))
                     THEN QuadraticValue(diff)
                     ELSE LinearValue(diff)

C5_Witness ==
    /\ lpc = "done"
    /\ sigma_rpn = 3
    /\ \E kc \in GatheredCoords :
          LET diff == DiffOf(AnchorOfRow(kc[1]), kc[2])
          IN diff # R(0) /\ RLess(RAbs(diff), RDiv(R(1), Sigma2))
    /\ \E kc \in GatheredCoords :
          LET diff == DiffOf(AnchorOfRow(kc[1]), kc[2])
          IN RLess(RDiv(R(1), Sigma2), RAbs(diff))

RECURSIVE WeightedRowSum(_, _)
\* Sum over the 4 coordinates of row k of outside_w * contribution.
WeightedRowSum(k, c) ==
    IF c = 0 THEN R(0)
    ELSE RAdd(RMul(rpn_bbox_outside_weights[AnchorOfRow(k)][c],
                   in_loss_box[k][1][c]),
              WeightedRowSum(k, c - 1))

RECURSIVE WeightedSum(_)
WeightedSum(k) ==
    IF k = 0 THEN R(0) ELSE RAdd(WeightedRowSum(k, 4), WeightedSum(k - 1))

\* C6: the regression loss of the K selected anchors is (1/K) times the sum
\* over the anchors of the sum of the 4 weighted coordinate contributions.
C6_MeanOverAnchors ==
    LossesBuilt =>
        rpn_loss_box = RDiv(WeightedSum(Len(in_loss_box)),
                            R(Len(in_loss_box)))

\* What the code computes instead: the gathered tensors have shape
\* (K, 1, 4), so reduce_sum over axis 1 sums nothing and reduce_mean divides
\* by 4 * K.
RpnLossBoxIsMeanOverCoordinates ==
    LossesBuilt =>
        rpn_loss_box = RDiv(WeightedSum(Len(in_loss_box)),
                            R(4 * Len(in_loss_box)))

\* C7: at |diff| = 1/sigma2 the stored value, the quadratic value
\* 0.5 * sigma2 * diff^2 and the linear value |diff| - 0.5/sigma2 are equal.
C7_ContinuousAtBoundary ==
    LossesBuilt =>
        \A kc \in GatheredCoords :
            LET diff == DiffOf(AnchorOfRow(kc[1]), kc[2])
            IN RAbs(diff) = RDiv(R(1), Sigma2) =>
                  /\ in_loss_box[kc[1]][1][kc[2]] = QuadraticValue(diff)
                  /\ in_loss_box[kc[1]][1][kc[2]] = LinearValue(diff)

C7_Witness ==
    /\ lpc = "done"
    /\ sigma_rpn = 1
    /\ \E kc \in GatheredCoords :
          RAbs(DiffOf(AnchorOfRow(kc[1]), kc[2])) = R(1)

(***************************************************************************)
(* Boxes.  A box is <<x1, y1, x2, y2>> in whole pixels, both corners       *)
(* inside it, so its width is x2 - x1 + 1 (the convention under which      *)
(* clipping to [0, width - 1] keeps a box inside the image).               *)
(***************************************************************************)
Min(a, b) == IF a < b THEN a ELSE b
Max(a, b) == IF a > b THEN a ELSE b

BoxWidth(b) == b[3] - b[1] + 1
BoxHeight(b) == b[4] - b[2] + 1
BoxArea(b) == BoxWidth(b) * BoxHeight(b)

\* iou(a, b) as <<intersection area, union area>>.
IoU(a, b) ==
    LET iw == Min(a[3], b[3]) - Max(a[1], b[1]) + 1
        ih == Min(a[4], b[4]) - Max(a[2], b[2]) + 1
        inter == IF iw > 0 /\ ih > 0 THEN iw * ih ELSE 0
    IN <<inter, BoxArea(a) + BoxArea(b) - inter>>

\* iou > threshold and iou >= threshold, the threshold a fraction <<n, d>>.
IoUAbove(iou, thr) == iou[1] * thr[2] > thr[1] * iou[2]
IoUAtLeast(iou, thr) == iou[1] * thr[2] >= thr[1] * iou[2]

\* decode(anchor, deltas): the centre moves by dx, dy anchor sizes and the
\* size is multiplied by exp(dw), exp(dh); a delta carries exp(dw), exp(dh).
Decode(a, d) ==
    LET w == BoxWidth(a)
        h == BoxHeight(a)
        ctr_x2 == 2 * a[1] + w + 2 * d[1] * w      \* twice the new centre
        ctr_y2 == 2 * a[2] + h + 2 * d[2] * h
        pw == d[3] * w
        ph == d[4] * h
    IN <<(ctr_x2 - pw) \div 2, (ctr_y2 - ph) \div 2,
         (ctr_x2 + pw) \div 2 - 1, (ctr_y2 + ph) \div 2 - 1>>

\* clip(box, image_width, image_height).
Clip(b, width, height) ==
    <<Max(Min(b[1], width - 1), 0), Max(Min(b[2], height - 1), 0),
      Max(Min(b[3], width - 1), 0), Max(Min(b[4], height - 1), 0)>>

(***************************************************************************)
(* The anchor lattice: generate_anchors_pre, and _anchor_component (lines  *)
(* 146-159), which calls it for the grid of the image.                     *)
(***************************************************************************)
FeatStride == 20        \* self._feat_stride[0]
AnchorWidth == 20       \* cfg.CTPN.ANCHOR_WIDTH
HRatioStep == <<7, 10>> \* cfg.CTPN.H_RADIO_STEP
NumHeights == 2         \* self._num_anchors, anchor shapes per cell

RECURSIVE Pow(_, _)
Pow(b, k) == IF k = 0 THEN 1 ELSE b * Pow(b, k - 1)

\* height_k = base_width * step^k, k = 0 .. num_heights - 1.
AnchorHeight(k) == (AnchorWidth * Pow(HRatioStep[1], k)) \div Pow(HRatioStep[2], k)

\* The anchor of shape k (from 0) in cell (r, c) (from 0), centred in it.
AnchorAt(r, c, k) ==
    LET x1 == c * FeatStride + (FeatStride - AnchorWidth) \div 2
        y1 == r * FeatStride + (FeatStride - AnchorHeight(k)) \div 2
    IN <<x1, y1, x1 + AnchorWidth - 1, y1 + AnchorHeight(k) - 1>>

\* Row-major over the cells, the shapes of a cell together.
GenerateAnchorsPre(grid_height, grid_width) ==
    [n \in 1..(grid_height * grid_width * NumHeights) |->
        LET cell == (n - 1) \div NumHeights
        IN AnchorAt(cell \div grid_width, cell % grid_width,
                    (n - 1) % NumHeights)]

CeilDiv(a, b) == (a + b - 1) \div b

\* _anchor_component: the grid is ceil(image size / stride).
AnchorComponent(info) ==
    GenerateAnchorsPre(CeilDiv(info[1], FeatStride), CeilDiv(info[2], FeatStride))

(***************************************************************************)
(* The two proposal decoders, proposal_layer and proposal_top_layer.       *)
(***************************************************************************)
NmsThresh == <<7, 10>>  \* nms_iou_threshold
MinSize == 2            \* min_box_size
PreNmsTopN == 3         \* pre_nms_top_n
PostNmsTopN == 2        \* post_nms_top_n
RPN_TOP_N == 3          \* cfg.TEST.RPN_TOP_N, top_k_n

\* decode() and clip every anchor; the score is the foreground channel.
Candidates(prob, deltas, info, anch) ==
    [i \in DOMAIN anch |->
        [box |-> Clip(Decode(anch[i], deltas[i]), info[2], info[1]),
         score |-> prob[i][2]]]

RECURSIVE FilterMinSize(_)
\* Discard the boxes whose width or height is below the minimum size.
FilterMinSize(cs) ==
    IF cs = <<>> THEN <<>>
    ELSE IF BoxWidth(cs[1].box) < MinSize \/ BoxHeight(cs[1].box) < MinSize
        THEN FilterMinSize(Tail(cs))
        ELSE <<cs[1]>> \o FilterMinSize(Tail(cs))

RECURSIVE InsertByScore(_, _)
\* Insert c into a sequence sorted by decreasing score, after its equals.
InsertByScore(c, sorted) ==
    IF sorted = <<>> THEN <<c>>
    ELSE IF c.score > sorted[1].score THEN <<c>> \o sorted
    ELSE <<sorted[1]>> \o InsertByScore(c, Tail(sorted))

RECURSIVE SortByScore(_)
\* Sort by score, descending; equal scores keep their anchor order.
SortByScore(cs) ==
    IF cs = <<>> THEN <<>>
    ELSE InsertByScore(cs[Len(cs)], SortByScore(SubSeq(cs, 1, Len(cs) - 1)))

Take(sq, n) == SubSeq(sq, 1, Min(n, Len(sq)))

RECURSIVE DropOverlapping_Inverted(_, _)
\* Mutant: the comparison is the wrong way round, the overlapping boxes stay.
DropOverlapping_Inverted(kept, cs) ==
    IF cs = <<>> THEN <<>>
    ELSE IF ~IoUAbove(IoU(kept.box, cs[1].box), NmsThresh)
        THEN DropOverlapping_Inverted(kept, Tail(cs))
        ELSE <<cs[1]>> \o DropOverlapping_Inverted(kept, Tail(cs))

RECURSIVE DropOverlapping(_, _)
\* The candidates whose IoU with `kept` is not above the threshold.
DropOverlapping(kept, cs) ==
    IF cs = <<>> THEN <<>>
    ELSE IF IoUAbove(IoU(kept.box, cs[1].box), NmsThresh)
        THEN DropOverlapping(kept, Tail(cs))
        ELSE <<cs[1]>> \o DropOverlapping(kept, Tail(cs))

RECURSIVE GreedyNms(_, _)
\* Greedy non-maximum suppression of a score-sorted list: take the first,
\* discard the others that overlap it, until the list is exhausted or
\* `room` boxes are kept.
GreedyNms(cs, room) ==
    IF cs = <<>> \/ room = 0 THEN <<>>
    ELSE <<cs[1]>> \o GreedyNms(DropOverlapping(cs[1], Tail(cs)), room - 1)

\* proposal_layer: decode, clip, size filter, sort, pre-NMS top n, NMS.
ProposalLayerFn(prob, deltas, info, anch) ==
    GreedyNms(Take(SortByScore(FilterMinSize(Candidates(prob, deltas, info, anch))),
                   PreNmsTopN),
              PostNmsTopN)

\* A box of zeros with score 0, the padding of the top-N output.
ZeroProposal == [box |-> <<0, 0, 0, 0>>, score |-> 0]

\* Mutant: no padding.
PadTo_None(ps, n) == ps

\* Pad a list up to n entries.
PadTo(ps, n) ==
    ps \o [i \in 1..Max(n - Len(ps), 0) |-> ZeroProposal]

\* proposal_top_layer: the top N anchors by score, decoded and clipped,
\* padded to exactly N.
ProposalTopLayerFn(prob, deltas, info, anch) ==
    PadTo(Take(SortByScore(Candidates(prob, deltas, info, anch)), RPN_TOP_N),
          RPN_TOP_N)

\* The blob a decoder hands back: rois rows <<0, x1, y1, x2, y2>> (batch
\* index first) and one score per row.
RoisOf(ps) == [i \in DOMAIN ps |-> <<0>> \o ps[i].box]
ScoresOf(ps) == [i \in DOMAIN ps |-> <<ps[i].score>>]

(***************************************************************************)
(* SpecProposal: one run of _proposal_layer (lines 100-112) or of          *)
(* _proposal_top_layer (lines 89-98) on the anchors of a bounded image.    *)
(***************************************************************************)
MaxGridWidth == 2       \* the image is 1 cell high and 1..MaxGridWidth wide

ProbPairs == {<<800, 200>>, <<500, 500>>, <<100, 900>>}
\* No change, and a move to the right by one anchor width.
Deltas == {<<0, 0, 1, 1>>, <<1, 0, 1, 1>>}

ImInfos == {<<FeatStride, FeatStride * g>> : g \in 1..MaxGridWidth}

InitProposal ==
    /\ HeadIdle
    /\ LossIdle
    /\ TargetIdle
    /\ ppc = "input"
    /\ im_info \in ImInfos
    /\ anchors = AnchorComponent(im_info)
    /\ rpn_cls_prob \in [DOMAIN anchors -> ProbPairs]
    /\ rpn_bbox_deltas \in [DOMAIN anchors -> Deltas]
    /\ rois = <<>>
    /\ rpn_scores = <<>>
    /\ rois_shape = <<>>

\* _proposal_layer: the py_func, then set_shape([None, 5]).
ProposalLayer ==
    /\ ppc = "input"
    /\ ppc' = "nms"
    /\ \E ps \in {ProposalLayerFn(rpn_cls_prob, rpn_bbox_deltas, im_info, anchors)} :
          /\ rois' = RoisOf(ps)
          /\ rpn_scores' = ScoresOf(ps)
    /\ rois_shape' = <<None, 5>>
    /\ UNCHANGED <<headVars, lossVars, propIn, targetVars>>

\* _proposal_top_layer: the py_func, then set_shape([cfg.TEST.RPN_TOP_N, 5]).
ProposalTopLayer ==
    /\ ppc = "input"
    /\ ppc' = "top"
    /\ \E ps \in {ProposalTopLayerFn(rpn_cls_prob, rpn_bbox_deltas, im_info, anchors)} :
          /\ rois' = RoisOf(ps)
          /\ rpn_scores' = ScoresOf(ps)
    /\ rois_shape' = <<RPN_TOP_N, 5>>
    /\ UNCHANGED <<headVars, lossVars, propIn, targetVars>>

NextProposal == ProposalLayer \/ ProposalTopLayer

SpecProposal == InitProposal /\ [][NextProposal]_vars

(***************************************************************************)
(* Claims about the proposal decoders.                                     *)
(***************************************************************************)
RoiBox(i) == SubSeq(rois[i], 2, 5)
RoiPairs == {p \in (DOMAIN rois) \X (DOMAIN rois) : p[1] < p[2]}

\* C8: the TopK decoder returns exactly RPN_TOP_N rows (rois and scores),
\* as its static shape says, also when there are fewer anchors than that;
\* the static length of the NMS decoder's output is left open.
C8_TopFixedSize ==
    /\ ppc = "top" =>
          /\ Len(rois) = RPN_TOP_N
          /\ Len(rpn_scores) = RPN_TOP_N
          /\ rois_shape = <<Len(rois), 5>>
          /\ \A i \in DOMAIN rois : Len(rois[i]) = 5
    /\ ppc = "nms" =>
          /\ rois_shape = <<None, 5>>
          /\ Len(rpn_scores) = Len(rois)

C8_Witness ==
    /\ ppc = "top"
    /\ Len(anchors) < RPN_TOP_N
    /\ Len(rois) = RPN_TOP_N
    /\ rois[Len(rois)] = <<0, 0, 0, 0, 0>>

\* The rows common to both statements of C9: scores in non-increasing
\* order, at most post_nms_top_n rows, none when no candidate survives the
\* minimum-size filter.
NmsOrderAndSize ==
    /\ \A p \in RoiPairs : rpn_scores[p[1]][1] >= rpn_scores[p[2]][1]
    /\ Len(rois) <= PostNmsTopN
    /\ Len(rpn_scores) = Len(rois)
    /\ FilterMinSize(Candidates(rpn_cls_prob, rpn_bbox_deltas, im_info, anchors)) = <<>>
          => rois = <<>>

\* Original statement of C9: any two kept boxes have IoU strictly below
\* the threshold.
C9_NmsPairsStrictlyBelow ==
    ppc = "nms" =>
        /\ NmsOrderAndSize
        /\ \A p \in RoiPairs :
              ~IoUAtLeast(IoU(RoiBox(p[1]), RoiBox(p[2])), NmsThresh)

\* C9 (amended): the NMS output is in non-increasing score order, has at
\* most post_nms_top_n rows (none when no candidate survives the size
\* filter), and any two kept boxes have IoU at most the threshold.
C9_NmsPairsNotAbove ==
    ppc = "nms" =>
        /\ NmsOrderAndSize
        /\ \A p \in RoiPairs :
              ~IoUAbove(IoU(RoiBox(p[1]), RoiBox(p[2])), NmsThresh)

C9_Witness ==
    /\ ppc = "nms"
    /\ Len(rois) = 2
    /\ IoU(RoiBox(1), RoiBox(2)) = <<280, 400>>
    /\ rpn_scores[1][1] > rpn_scores[2][1]

(***************************************************************************)
(* anchor_target_layer: labels, regression targets and weights per anchor. *)
(***************************************************************************)
PositiveThresh == <<7, 10>>     \* positive_iou_threshold
NegativeThresh == <<3, 10>>     \* negative_iou_threshold
AllowedBorder == 0              \* the border an anchor may cross
RpnBatchSize == 2               \* batch_size: examples kept per image
FgFraction == <<1, 2>>          \* max_positive_fraction

\* The most positives kept: int(fraction * batch size).
NumFg == (FgFraction[1] * RpnBatchSize) \div FgFraction[2]

\* Step 1: the anchor lies inside the image, the allowed border included.
InsideImage(a, info) ==
    /\ a[1] >= -AllowedBorder
    /\ a[2] >= -AllowedBorder
    /\ a[3] < info[2] + AllowedBorder
    /\ a[4] < info[1] + AllowedBorder

InsideAnchors(anch, info) == {i \in DOMAIN anch : InsideImage(anch[i], info)}

GtBox(g) == SubSeq(g, 1, 4)

\* a < b for two IoUs <<intersection, union>>.
IoULess(a, b) == a[1] * b[2] < b[1] * a[2]

\* Step 2: the ground-truth box an anchor overlaps best (the first of
\* equals), and that overlap; <<0, 1>> when there is no ground truth.
ArgmaxGt(a, gts) ==
    CHOOSE g \in DOMAIN gts :
        \A h \in DOMAIN gts :
            /\ ~IoULess(IoU(a, GtBox(gts[g])), IoU(a, GtBox(gts[h])))
            /\ ~IoULess(IoU(a, GtBox(gts[h])), IoU(a, GtBox(gts[g]))) => g <= h

MaxIoU(a, gts) ==
    IF gts = <<>> THEN <<0, 1>> ELSE IoU(a, GtBox(gts[ArgmaxGt(a, gts)]))

\* Step 3, second rule: the one inside anchor that overlaps ground-truth
\* box g best (the first of equals).
BestAnchor(g, anch, inside) ==
    CHOOSE i \in inside :
        \A j \in inside :
            /\ ~IoULess(IoU(anch[i], g), IoU(anch[j], g))
            /\ ~IoULess(IoU(anch[j], g), IoU(anch[i], g)) => i <= j

\* Mutant: no forced positives, the threshold alone decides.
ForcedPositives_None(anch, gts, inside) == {}

\* Each ground-truth box makes its best inside anchor positive.
ForcedPositives(anch, gts, inside) ==
    IF inside = {} THEN {}
    ELSE {BestAnchor(GtBox(gts[g]), anch, inside) : g \in DOMAIN gts}

\* Step 3: the positive anchors before balancing.
Positives(anch, gts, info) ==
    LET inside == InsideAnchors(anch, info)
    IN {i \in inside : gts # <<>> /\ IoUAtLeast(MaxIoU(anch[i], gts), PositiveThresh)}
          \cup ForcedPositives(anch, gts, inside)

\* Step 4: the negative anchors before balancing.
Negatives(anch, gts, info) ==
    {i \in InsideAnchors(anch, info) \ Positives(anch, gts, info) :
        ~IoUAtLeast(MaxIoU(anch[i], gts), NegativeThresh)}

\* Step 6: the ways to keep at most n of a set (sampling without replacement).
Samples(S, n) == {T \in SUBSET S : Cardinality(T) = Min(n, Cardinality(S))}

\* encode(anchor, gt) as <<dx, dy, exp(dw), exp(dh)>>, exact fractions.
Encode(a, g) ==
    LET aw == BoxWidth(a)
        ah == BoxHeight(a)
        gw == BoxWidth(g)
        gh == BoxHeight(g)
    IN <<Rat((2 * g[1] + gw) - (2 * a[1] + aw), 2 * aw),
         Rat((2 * g[2] + gh) - (2 * a[2] + ah), 2 * ah),
         Rat(gw, aw), Rat(gh, ah)>>

\* Steps 5 and 7: the result for the kept positives and negatives.
Assignment(anch, gts, pos, neg) ==
    LET num_examples == Cardinality(pos) + Cardinality(neg)
        w == Rat(1, num_examples)
    IN [labels |-> [i \in DOMAIN anch |->
                       IF i \in pos THEN 1 ELSE IF i \in neg THEN 0 ELSE -1],
        bbox_targets |-> [i \in DOMAIN anch |->
                       IF i \in pos
                          THEN Encode(anch[i], GtBox(gts[ArgmaxGt(anch[i], gts)]))
                          ELSE Zero4],
        inside_weights |-> [i \in DOMAIN anch |->
                       IF i \in pos THEN One4 ELSE Zero4],
        outside_weights |-> [i \in DOMAIN anch |->
                       IF i \in pos \cup neg THEN Vec4(w, w, w, w) ELSE Zero4]]

(***************************************************************************)
(* SpecTarget: one run of _anchor_target_layer (lines 117-144).            *)
(***************************************************************************)
MaxGt == 2              \* ground-truth boxes per image: 0..MaxGt

\* Ground-truth boxes: an anchor's own box, a small box in the second cell,
\* the whole of a two-cell image, a small box near the left edge, the upper
\* half of the first cell.
GtChoices == { <<0, 0, 19, 19, 1>>, <<25, 5, 34, 14, 1>>,
               <<0, 0, 39, 19, 1>>, <<2, 5, 7, 14, 1>>, <<0, 0, 19, 9, 1>> }

\* Images: narrower than an anchor, one cell, one and a half, two cells.
TargetImInfos == { <<FeatStride, 10>>, <<FeatStride, 20>>,
                   <<FeatStride, 30>>, <<FeatStride, 40>> }

GtLists == UNION {[1..n -> GtChoices] : n \in 0..MaxGt}

InitTarget ==
    /\ HeadIdle
    /\ LossIdle
    /\ ppc = "idle"
    /\ rpn_cls_prob = <<>>
    /\ rpn_bbox_deltas = <<>>
    /\ rois = <<>>
    /\ rpn_scores = <<>>
    /\ rois_shape = <<>>
    /\ tpc = "input"
    /\ im_info \in TargetImInfos
    /\ anchors = AnchorComponent(im_info)
    /\ gt_boxes \in GtLists
    /\ \A g \in DOMAIN gt_boxes :
          Clip(GtBox(gt_boxes[g]), im_info[2], im_info[1]) = GtBox(gt_boxes[g])

\* _anchor_target_layer: the py_func with its random balancing, to_int32 of
\* the labels, then the four entries of self._anchor_targets.
AnchorTargetLayer ==
    /\ tpc = "input"
    /\ tpc' = "done"
    /\ \E pos \in Samples(Positives(anchors, gt_boxes, im_info), NumFg) :
       \E neg \in Samples(Negatives(anchors, gt_boxes, im_info),
                          RpnBatchSize - Cardinality(pos)) :
       \E out \in {Assignment(anchors, gt_boxes, pos, neg)} :
          /\ rpn_labels' = out.labels
          /\ rpn_bbox_targets' = out.bbox_targets
          /\ rpn_bbox_inside_weights' = out.inside_weights
          /\ rpn_bbox_outside_weights' = out.outside_weights
    /\ UNCHANGED <<headVars, lpc, rpn_cls_score, rpn_bbox_pred, sigma_rpn,
                   regularization_loss, lossOut, propVars, gt_boxes>>

NextTarget == AnchorTargetLayer

SpecTarget == InitTarget /\ [][NextTarget]_vars

(***************************************************************************)
(* Claims about the anchor-target layer.                                   *)
(***************************************************************************)
HasPositive == \E i \in DOMAIN rpn_labels : rpn_labels[i] = 1

\* Original statement of C10: with a non-empty ground-truth list at least
\* one anchor is labelled positive; with an empty one none is.
C10_AlwaysAPositive ==
    tpc = "done" =>
        /\ gt_boxes # <<>> => HasPositive
        /\ gt_boxes = <<>> => ~HasPositive

\* C10 (amended): with a non-empty ground-truth list and at least one
\* anchor inside the image, at least one anchor is labelled positive after
\* the filtering and the balancing, whatever the overlaps are; with an
\* empty ground-truth list, or with no anchor inside the image, no anchor
\* is positive.
C10_PositiveWhenAnchorInside ==
    tpc = "done" =>
        /\ (gt_boxes # <<>> /\ InsideAnchors(anchors, im_info) # {}) => HasPositive
        /\ (gt_boxes = <<>> \/ InsideAnchors(anchors, im_info) = {}) => ~HasPositive
        /\ Len(rpn_labels) = Len(anchors)
        /\ \A i \in DOMAIN rpn_labels :
              rpn_labels[i] = 1 => i \in InsideAnchors(anchors, im_info)

C10_Witness ==
    /\ tpc = "done"
    /\ gt_boxes # <<>>
    /\ \A i \in InsideAnchors(anchors, im_info) :
          ~IoUAtLeast(MaxIoU(anchors[i], gt_boxes), PositiveThresh)
    /\ InsideAnchors(anchors, im_info) # DOMAIN anchors
    /\ Cardinality(Positives(anchors, gt_boxes, im_info)) > NumFg
    /\ HasPositive

=============================================================================
